---- MODULE Spec2Model ----
(***************************************************************************)
(* Model of lib/ai/tools/get_rates.js: the getRates tool.  One invocation  *)
(* validates its arguments against getRates.parameters, acquires a client  *)
(* from the module-wide pg.Pool, builds a parameterised SELECT statement,  *)
(* runs it, and releases the client in a finally block.                    *)
(***************************************************************************)
EXTENDS Integers, Sequences, FiniteSets, TLC

(***************************************************************************)
(* Bounds of the model.                                                    *)
(***************************************************************************)
\* concurrent invocations in the pool specification
NumInvocations == 3
\* connections the pool can hand out (pg.Pool's max)
PoolSize == 2
\* rows of exchange_rates that match any filter
TableRows == 3

(***************************************************************************)
(* JavaScript values.  Each value carries its typeof tag.                  *)
(***************************************************************************)
undefined == [t |-> "undefined"]
Str(s) == [t |-> "string", s |-> s]
Num(n) == [t |-> "number", n |-> n]
Bool(b) == [t |-> "boolean", b |-> b]
\* a Date object: time is the epoch time in seconds, valid is FALSE for
\* "Invalid Date" (time NaN)
DateObj(valid, time) == [t |-> "object", class |-> "Date", valid |-> valid, time |-> time]
\* the orderBy argument object
OrderByObj(column, ascending) ==
    [t |-> "object", class |-> "Object", column |-> column, ascending |-> ascending]

typeof(v) == v.t

\* JavaScript ToBoolean, as used by `if (x)` and `x ? a : b`
Truthy(v) ==
    CASE v.t = "undefined" -> FALSE
      [] v.t = "string" -> v.s # ""
      [] v.t = "number" -> v.n # 0
      [] v.t = "boolean" -> v.b
      [] OTHER -> TRUE

\* new Date(string): Date.parse of the ISO strings the model uses; two
\* spellings of the same instant give the same time, anything unparsable
\* gives an Invalid Date
NewDate(v) ==
    CASE v.s = "2024-01-01T00:00:00.000Z" -> DateObj(TRUE, 1704067200)
      [] v.s = "2024-01-01" -> DateObj(TRUE, 1704067200)
      [] v.s = "2024-01-02T00:00:00.000Z" -> DateObj(TRUE, 1704153600)
      [] OTHER -> DateObj(FALSE, 0)

\* Array.prototype.join
RECURSIVE join(_, _)
join(arr, sep) ==
    IF Len(arr) = 0 THEN ""
    ELSE IF Len(arr) = 1 THEN arr[1]
    ELSE arr[1] \o sep \o join(Tail(arr), sep)

(***************************************************************************)
(* getRates.parameters: the zod schema.  z.object() keeps the declared     *)
(* keys and strips every other key from the parsed value; each declared    *)
(* key is .optional(), so undefined passes.                                *)
(***************************************************************************)
ZString(v) == typeof(v) = "string"
\* z.coerce.number() in place of z.number(): numeric strings pass
ZNumberCoerce(v) == typeof(v) \in {"number", "string"}
ZNumber(v) == typeof(v) = "number"
ZBoolean(v) == typeof(v) = "boolean"
ZOrderBy(v) ==
    /\ typeof(v) = "object"
    /\ v.class = "Object"
    /\ ZString(v.column)
    /\ ZBoolean(v.ascending)

\* .optional(): undefined passes
OptString(v) == v = undefined \/ ZString(v)
OptNumber(v) == v = undefined \/ ZNumber(v)
OptOrderBy(v) == v = undefined \/ ZOrderBy(v)

\* schema.safeParse(raw).success
ZodAccepts(raw) ==
    /\ OptString(raw.fromCurrency)
    /\ OptString(raw.toCurrency)
    /\ OptNumber(raw.side)
    /\ OptNumber(raw.limit)
    /\ OptString(raw.startDate)
    /\ OptString(raw.endDate)
    /\ OptOrderBy(raw.orderBy)

\* schema.safeParse(raw).data: the declared keys only
ZodData(raw) ==
    [fromCurrency |-> raw.fromCurrency, toCurrency |-> raw.toCurrency,
     side |-> raw.side, limit |-> raw.limit, startDate |-> raw.startDate,
     endDate |-> raw.endDate, orderBy |-> raw.orderBy]

(***************************************************************************)
(* execute: parameter destructuring and query construction.                *)
(***************************************************************************)
DefaultLimit == 100

\* `limit || 100` in place of the default parameter: 0 becomes 100
LimitOrDefaultFalsy(limit) == IF Truthy(limit) THEN limit ELSE Num(DefaultLimit)

\* `limit = 100` in the parameter list: the default applies to undefined only
LimitOrDefault(limit) == IF limit = undefined THEN Num(DefaultLimit) ELSE limit

Destructure(data) == [data EXCEPT !.limit = LimitOrDefault(data.limit)]

\* `$${paramCount}`
Placeholder(paramCount) == "$" \o ToString(paramCount)

\* the builder's three locals before the first filter is looked at
EmptyBuild == [conditions |-> <<>>, values |-> <<>>, paramCount |-> 1]

\* Push without `paramCount++`
PushNoIncrement(b, text, value) ==
    [conditions |-> Append(b.conditions, "" \o text \o "$" \o ToString(b.paramCount)),
     values |-> Append(b.values, value),
     paramCount |-> b.paramCount]

\* conditions.push(text); values.push(value); paramCount++
Push(b, text, value) ==
    [conditions |-> Append(b.conditions, text \o Placeholder(b.paramCount)),
     values |-> Append(b.values, value),
     paramCount |-> b.paramCount + 1]

AddFromCurrency(b, fromCurrency) ==
    IF Truthy(fromCurrency) THEN Push(b, "from_currency_id = ", fromCurrency) ELSE b

AddToCurrency(b, toCurrency) ==
    IF Truthy(toCurrency) THEN Push(b, "to_currency_id = ", toCurrency) ELSE b

\* `if (side)` in place of `if (typeof side === 'number')`
AddSideTruthy(b, side) ==
    IF Truthy(side)
    THEN [conditions |-> Append(b.conditions, "side = $" \o ToString(b.paramCount)),
          values |-> Append(b.values, side),
          paramCount |-> b.paramCount + 1]
    ELSE b

AddSide(b, side) ==
    IF typeof(side) = "number" THEN Push(b, "side = ", side) ELSE b

\* the start-date branch without `values.push(new Date(startDate))`
AddStartDateNoValue(b, startDate) ==
    IF Truthy(startDate)
    THEN [conditions |-> Append(b.conditions, "created_at >= $" \o ToString(b.paramCount)),
          values |-> b.values,
          paramCount |-> b.paramCount + 1]
    ELSE b

AddStartDate(b, startDate) ==
    IF Truthy(startDate) THEN Push(b, "created_at >= ", NewDate(startDate)) ELSE b

AddEndDate(b, endDate) ==
    IF Truthy(endDate) THEN Push(b, "created_at <= ", NewDate(endDate)) ELSE b

\* lines 55-87: the five filters in source order
Filters(a) ==
    AddEndDate(
      AddStartDate(
        AddSide(
          AddToCurrency(
            AddFromCurrency(EmptyBuild, a.fromCurrency),
            a.toCurrency),
          a.side),
        a.startDate),
      a.endDate)

\* the WHERE keyword emitted without looking at conditions.length
WhereClauseAlways(conds) == "WHERE " \o join(conds, " AND ")

WhereClause(conds) ==
    IF Len(conds) > 0 THEN "WHERE " \o join(conds, " AND ") ELSE ""

\* the direction ternary the wrong way round
OrderByClauseFlipped(orderBy) ==
    IF Truthy(orderBy)
    THEN "ORDER BY " \o orderBy.column.s \o " "
             \o (IF Truthy(orderBy.ascending) THEN "DESC" ELSE "ASC")
    ELSE "ORDER BY created_at DESC"

OrderByClause(orderBy) ==
    IF Truthy(orderBy)
    THEN "ORDER BY " \o orderBy.column.s \o " "
             \o (IF Truthy(orderBy.ascending) THEN "ASC" ELSE "DESC")
    ELSE "ORDER BY created_at DESC"

\* the template literal of lines 100-105, whitespace included
QueryText(where, order, paramCount) ==
    "\n        SELECT * FROM exchange_rates \n        " \o where
        \o " \n        " \o order
        \o "\n        LIMIT " \o Placeholder(paramCount) \o "\n      "

\* values.push(limit)
PushLimit(vals, limit) == Append(vals, limit)

(***************************************************************************)
(* The collaborators: the exchange_rates table behind client.query and the *)
(* errors the database layer raises.                                       *)
(***************************************************************************)
Columns == {"from_currency_id", "to_currency_id", "rate", "side", "created_at"}

\* the rows matching a statement, in the statement's order
Table == [i \in 1..TableRows |-> [id |-> i]]

QueryErrors == {"ECONNRESET", "42703 column does not exist"}
ConnectErrors == {"ECONNREFUSED"}
NoError == "none"
ValidationError == "ZodError"

Min(a, b) == IF a < b THEN a ELSE b

\* whether PostgreSQL can execute the statement: the ORDER BY column exists,
\* the LIMIT parameter is not negative and every timestamp parameter is a
\* real date.  Anything else can only fail.
Executable(order, vals) ==
    /\ order \in {"ORDER BY " \o c \o " " \o d : c \in Columns, d \in {"ASC", "DESC"}}
    /\ vals[Len(vals)].t = "number"
    /\ vals[Len(vals)].n >= 0
    /\ \A i \in 1..Len(vals) : (vals[i].t = "object") => vals[i].valid

\* the row counts a database honouring LIMIT may answer with
RowCounts(vals) == 0..Min(vals[Len(vals)].n, TableRows)

(***************************************************************************)
(* State.                                                                  *)
(***************************************************************************)
VARIABLES
    pc,            \* where each invocation is: idle, connecting, querying,
                   \* returned, raised, invalid
    input,         \* the raw argument object the caller passed
    args,          \* execute's destructured parameters
    conditions,    \* execute's locals
    values,
    paramCount,
    whereClause,
    orderByClause,
    query,
    client,        \* the pooled client the invocation holds, 0 for none
    checkedOut,    \* pool: connection -> invocation holding it, 0 when idle
    pendingQueue,  \* pool: invocations waiting in pool.connect(), oldest first
    dbRows,        \* result.rows as client.query resolved it
    dbError,       \* the error client.query / pool.connect rejected with
    returned,      \* what execute resolved with
    thrown,        \* what the caller saw raised
    console,       \* console.log / console.error calls of the invocation
    queryCalls,    \* client.query calls of the invocation
    releaseCalls   \* client.release calls of the invocation

vars == <<pc, input, args, conditions, values, paramCount, whereClause,
          orderByClause, query, client, checkedOut, pendingQueue, dbRows,
          dbError, returned, thrown, console, queryCalls, releaseCalls>>

locals == <<conditions, values, paramCount, whereClause, orderByClause, query>>

Procs == DOMAIN pc
Connections == 1..PoolSize

NoInput ==
    [fromCurrency |-> undefined, toCurrency |-> undefined, side |-> undefined,
     limit |-> undefined, startDate |-> undefined, endDate |-> undefined,
     orderBy |-> undefined, extra |-> undefined]

InitFor(procs) ==
    /\ pc = [p \in procs |-> "idle"]
    /\ input = [p \in procs |-> NoInput]
    /\ args = [p \in procs |-> ZodData(NoInput)]
    /\ conditions = [p \in procs |-> <<>>]
    /\ values = [p \in procs |-> <<>>]
    /\ paramCount = [p \in procs |-> 1]
    /\ whereClause = [p \in procs |-> ""]
    /\ orderByClause = [p \in procs |-> ""]
    /\ query = [p \in procs |-> ""]
    /\ client = [p \in procs |-> 0]
    /\ checkedOut = [c \in Connections |-> 0]
    /\ pendingQueue = <<>>
    /\ dbRows = [p \in procs |-> <<>>]
    /\ dbError = [p \in procs |-> NoError]
    /\ returned = [p \in procs |-> <<>>]
    /\ thrown = [p \in procs |-> NoError]
    /\ console = [p \in procs |-> <<>>]
    /\ queryCalls = [p \in procs |-> 0]
    /\ releaseCalls = [p \in procs |-> 0]

(***************************************************************************)
(* The pool (pg.Pool) as execute uses it.                                  *)
(***************************************************************************)
\* a pool that does not look at which connections are checked out
FreeConnectionsAny(co) == Connections

FreeConnections(co) == {c \in Connections : co[c] = 0}

\* pool.connect() resolving with connection c for invocation p
Acquire(co, c, p) == [co EXCEPT ![c] = p]

\* a finally block that does not return the client to the pool
ReleaseNothing(co, c) == co

\* client.release()
Release(co, c) == [co EXCEPT ![c] = 0]

\* `return result.rows`
ResultRows(rows) == rows

\* `throw new Error('Error fetching rates')` in place of `throw error`
RethrowWrapped(error) == "Error fetching rates"

\* `throw error` in the catch block
Rethrow(error) == error

(***************************************************************************)
(* Operations.                                                             *)
(***************************************************************************)
\* The caller hands `raw` to the tool: it is parsed against
\* getRates.parameters and, when it parses, execute starts, logs the
\* resolved filter and calls pool.connect().
Invoke(p, raw) ==
    /\ pc[p] = "idle"
    /\ input' = [input EXCEPT ![p] = raw]
    /\ IF ZodAccepts(raw)
       THEN /\ args' = [args EXCEPT ![p] = Destructure(ZodData(raw))]
            /\ console' = [console EXCEPT ![p] =
                   Append(@, [stream |-> "log", msg |-> "querying with"])]
            /\ pendingQueue' = Append(pendingQueue, p)
            /\ pc' = [pc EXCEPT ![p] = "connecting"]
            /\ UNCHANGED thrown
       ELSE /\ thrown' = [thrown EXCEPT ![p] = ValidationError]
            /\ pc' = [pc EXCEPT ![p] = "invalid"]
            /\ UNCHANGED <<args, console, pendingQueue>>
    /\ UNCHANGED <<locals, client, checkedOut, dbRows, dbError, returned,
                   queryCalls, releaseCalls>>

\* pool.connect() resolves with connection c; execute runs lines 53-108 up
\* to the await of client.query.
Connect(p, c) ==
    /\ pc[p] = "connecting"
    /\ pendingQueue # <<>>
    /\ Head(pendingQueue) = p
    /\ c \in FreeConnections(checkedOut)
    /\ LET b == Filters(args[p])
           where == WhereClause(b.conditions)
           order == OrderByClause(args[p].orderBy)
       IN /\ conditions' = [conditions EXCEPT ![p] = b.conditions]
          /\ paramCount' = [paramCount EXCEPT ![p] = b.paramCount]
          /\ whereClause' = [whereClause EXCEPT ![p] = where]
          /\ orderByClause' = [orderByClause EXCEPT ![p] = order]
          /\ query' = [query EXCEPT ![p] = QueryText(where, order, b.paramCount)]
          /\ values' = [values EXCEPT ![p] = PushLimit(b.values, args[p].limit)]
    /\ pendingQueue' = Tail(pendingQueue)
    /\ checkedOut' = Acquire(checkedOut, c, p)
    /\ client' = [client EXCEPT ![p] = c]
    /\ queryCalls' = [queryCalls EXCEPT ![p] = @ + 1]
    /\ pc' = [pc EXCEPT ![p] = "querying"]
    /\ UNCHANGED <<input, args, dbRows, dbError, returned, thrown, console,
                   releaseCalls>>

\* pool.connect() rejects (the pool could not open a connection); line 52 is
\* outside the try block, so the rejection leaves execute as it is.
ConnectFail(p, err) ==
    /\ pc[p] = "connecting"
    /\ pendingQueue # <<>>
    /\ Head(pendingQueue) = p
    /\ FreeConnections(checkedOut) # {}
    /\ pendingQueue' = Tail(pendingQueue)
    /\ dbError' = [dbError EXCEPT ![p] = err]
    /\ thrown' = [thrown EXCEPT ![p] = err]
    /\ pc' = [pc EXCEPT ![p] = "raised"]
    /\ UNCHANGED <<input, args, locals, client, checkedOut, dbRows, returned,
                   console, queryCalls, releaseCalls>>

\* client.query resolves with k rows: line 109 returns them, then the
\* finally block releases the client.
QueryOk(p, k) ==
    /\ pc[p] = "querying"
    /\ Executable(orderByClause[p], values[p])
    /\ k \in RowCounts(values[p])
    /\ dbRows' = [dbRows EXCEPT ![p] = SubSeq(Table, 1, k)]
    /\ returned' = [returned EXCEPT ![p] = ResultRows(dbRows'[p])]
    /\ checkedOut' = Release(checkedOut, client[p])
    /\ releaseCalls' = [releaseCalls EXCEPT ![p] = @ + 1]
    /\ pc' = [pc EXCEPT ![p] = "returned"]
    /\ UNCHANGED <<input, args, locals, client, pendingQueue, dbError, thrown,
                   console, queryCalls>>

\* client.query rejects with err: the catch block logs and rethrows it,
\* then the finally block releases the client.
QueryFail(p, err) ==
    /\ pc[p] = "querying"
    /\ dbError' = [dbError EXCEPT ![p] = err]
    /\ console' = [console EXCEPT ![p] =
           Append(@, [stream |-> "error", msg |-> "Error fetching rates:", error |-> err])]
    /\ thrown' = [thrown EXCEPT ![p] = Rethrow(err)]
    /\ checkedOut' = Release(checkedOut, client[p])
    /\ releaseCalls' = [releaseCalls EXCEPT ![p] = @ + 1]
    /\ pc' = [pc EXCEPT ![p] = "raised"]
    /\ UNCHANGED <<input, args, locals, client, pendingQueue, dbRows, returned,
                   queryCalls>>

(***************************************************************************)
(* Argument objects a caller may pass.                                     *)
(***************************************************************************)
FromCurrencyInputs == {undefined, Str(""), Str("USDT")}
ToCurrencyInputs == {undefined, Str(""), Str("NGN")}
SideInputs == {undefined, Num(0), Num(1), Str("0")}
LimitInputs == {undefined, Num(0), Num(2), Num(10), Num(-1)}
StartDateInputs ==
    {undefined, Str(""), Str("2024-01-01"), Str("2024-01-01T00:00:00.000Z"),
     Str("yesterday")}
EndDateInputs == {undefined, Str(""), Str("2024-01-02T00:00:00.000Z")}
OrderByInputs ==
    {undefined, OrderByObj(Str("rate"), Bool(TRUE)),
     OrderByObj(Str("rate"), Bool(FALSE)),
     OrderByObj(Str("no_such_column"), Bool(TRUE)), Str("rate")}
ExtraInputs == {undefined, Str("x")}

RawInputs ==
    [fromCurrency : FromCurrencyInputs, toCurrency : ToCurrencyInputs,
     side : SideInputs, limit : LimitInputs, startDate : StartDateInputs,
     endDate : EndDateInputs, orderBy : OrderByInputs, extra : ExtraInputs]

\* the argument objects of the pool specification
PoolInputs ==
    {[NoInput EXCEPT !.side = Num(0), !.limit = Num(1)],
     [NoInput EXCEPT !.side = Str("0")]}

(***************************************************************************)
(* Specifications.  Spec: one invocation over every argument object.       *)
(* PoolSpec: NumInvocations concurrent invocations sharing the pool, with  *)
(* the database answering every query and the pool serving its queue.      *)
(***************************************************************************)
Init == InitFor(1..1)

Next ==
    \/ \E p \in Procs : pc[p] = "idle" /\ \E raw \in RawInputs : Invoke(p, raw)
    \/ \E p \in Procs, c \in Connections : Connect(p, c)
    \/ \E p \in Procs, err \in ConnectErrors : ConnectFail(p, err)
    \/ \E p \in Procs, k \in 0..TableRows : QueryOk(p, k)
    \/ \E p \in Procs, err \in QueryErrors : QueryFail(p, err)

Spec == Init /\ [][Next]_vars

PoolInit == InitFor(1..NumInvocations)

PoolNext ==
    \/ \E p \in Procs : pc[p] = "idle" /\ \E raw \in PoolInputs : Invoke(p, raw)
    \/ \E p \in Procs, c \in Connections : Connect(p, c)
    \/ \E p \in Procs, err \in ConnectErrors : ConnectFail(p, err)
    \/ \E p \in Procs, k \in 0..TableRows : QueryOk(p, k)
    \/ \E p \in Procs, err \in QueryErrors : QueryFail(p, err)

\* pool.connect() serves its queue oldest first, so the only Connect step
\* ever enabled is the one of the invocation at the head of the queue.
PoolSpec ==
    /\ PoolInit
    /\ [][PoolNext]_vars
    /\ WF_vars(\E p \in Procs, c \in Connections : Connect(p, c))
    /\ WF_vars(\E p \in Procs :
                  \/ \E k \in 0..TableRows : QueryOk(p, k)
                  \/ \E err \in QueryErrors : QueryFail(p, err))

(***************************************************************************)
(* Properties.                                                             *)
(***************************************************************************)
\* pool.connect() succeeded for p
Connected(p) == client[p] # 0
\* execute has built its statement and called client.query
Built(p) == Connected(p) /\ pc[p] \in {"querying", "returned", "raised"}
Finished(p) == pc[p] \in {"returned", "raised"}
InFlight(p) == pc[p] \in {"connecting", "querying"}
Holds(p) == {c \in Connections : checkedOut[c] = p}

\* C1: an invocation whose pool.connect() succeeded calls client.release()
\* exactly once before it finishes, on the return path and on the throw
\* path alike: while it awaits the query it still holds its connection and
\* has not released, once finished it holds nothing and has released once,
\* and an invocation that never got a client never releases.
C1_ReleasedExactlyOnce ==
    \A p \in Procs :
        /\ releaseCalls[p] <= 1
        /\ ~Connected(p) => releaseCalls[p] = 0 /\ Holds(p) = {}
        /\ (Connected(p) /\ pc[p] = "querying") =>
               releaseCalls[p] = 0 /\ Holds(p) = {client[p]}
        /\ (Connected(p) /\ Finished(p)) =>
               releaseCalls[p] = 1 /\ Holds(p) = {}

\* a failed query whose client went back to the pool once
C1_Witness ==
    \E p \in Procs :
        /\ Connected(p) /\ pc[p] = "raised"
        /\ dbError[p] \in QueryErrors
        /\ releaseCalls[p] = 1 /\ Holds(p) = {}

\* C2: when client.query fails, the invocation logs the error with
\* console.error, has issued one query only, returns no rows and raises to
\* the caller the very error the database layer raised.
C2_ErrorPropagated ==
    \A p \in Procs :
        (Connected(p) /\ dbError[p] # NoError) =>
            /\ pc[p] = "raised"
            /\ thrown[p] = dbError[p]
            /\ returned[p] = <<>>
            /\ queryCalls[p] = 1
            /\ Len(console[p]) = 2
            /\ console[p][2].stream = "error"
            /\ console[p][2].error = dbError[p]

\* a query rejected for an unknown ORDER BY column reaches the caller
C2_Witness ==
    \E p \in Procs :
        /\ Connected(p) /\ pc[p] = "raised"
        /\ input[p].orderBy = OrderByObj(Str("no_such_column"), Bool(TRUE))
        /\ thrown[p] = "42703 column does not exist"

FilterFields == <<"fromCurrency", "toCurrency", "side", "startDate", "endDate">>
StringFilters == {"fromCurrency", "toCurrency", "startDate", "endDate"}

\* the filter fields present in an argument object
PresentFields(raw) == {i \in 1..Len(FilterFields) : raw[FilterFields[i]] # undefined}

\* the filter fields that are present and not the empty string
NonEmptyFields(raw) ==
    {i \in PresentFields(raw) : raw[FilterFields[i]] # Str("")}

\* C3 as stated: the predicate count is the number of filter fields present
\* in the input, empty strings included, and the parameter list is one
\* longer.
C3_CountsAllPresent ==
    \A p \in Procs :
        Built(p) =>
            /\ Len(conditions[p]) = Cardinality(PresentFields(input[p]))
            /\ Len(values[p]) = Len(conditions[p]) + 1

\* C3 amended: the predicate count is the number of filter fields that are
\* present and, for the four string fields, not the empty string; the
\* parameter list is one longer (the limit).
C3_CountsNonEmpty ==
    \A p \in Procs :
        Built(p) =>
            /\ Len(conditions[p]) = Cardinality(NonEmptyFields(input[p]))
            /\ Len(values[p]) = Len(conditions[p]) + 1

\* an empty-string currency next to a real filter: one predicate, two
\* parameters
C3_Witness ==
    \E p \in Procs :
        /\ Built(p)
        /\ input[p].fromCurrency = Str("")
        /\ input[p].startDate = Str("2024-01-01")
        /\ Cardinality(PresentFields(input[p])) = 2
        /\ Len(conditions[p]) = 1 /\ Len(values[p]) = 2

\* positions of the `side = $n` predicates of p's statement
SidePredicates(p) ==
    {i \in 1..Len(conditions[p]) :
        \E n \in 1..(Len(FilterFields) + 1) : conditions[p][i] = "side = $" \o ToString(n)}

\* C4: side 0 and side 1 each add exactly one `side = $n` predicate, n
\* being its position, with the side value at that position of the
\* parameter list; an absent side adds none.
C4_SideZeroHonoured ==
    \A p \in Procs :
        Built(p) =>
            /\ input[p].side \in {Num(0), Num(1)} =>
                   /\ Cardinality(SidePredicates(p)) = 1
                   /\ \A i \in SidePredicates(p) :
                          /\ conditions[p][i] = "side = $" \o ToString(i)
                          /\ values[p][i] = input[p].side
            /\ input[p].side = undefined => SidePredicates(p) = {}

\* side 0 after a currency filter: `side = $2`, 0 second in the parameters
C4_Witness ==
    \E p \in Procs :
        /\ Built(p)
        /\ input[p].side = Num(0)
        /\ conditions[p] = <<"from_currency_id = $1", "side = $2">>
        /\ values[p][2] = Num(0)

\* every declared key omitted
NoFilters(raw) ==
    /\ PresentFields(raw) = {}
    /\ raw.limit = undefined
    /\ raw.orderBy = undefined

\* C5: with every filter omitted the statement has no WHERE clause, orders
\* by created_at DESC and binds LIMIT $1 to the parameter list [100].
C5_NoFiltersDefaults ==
    \A p \in Procs :
        (Built(p) /\ NoFilters(input[p])) =>
            /\ whereClause[p] = ""
            /\ orderByClause[p] = "ORDER BY created_at DESC"
            /\ query[p] = "\n        SELECT * FROM exchange_rates \n         \n"
                          \o "        ORDER BY created_at DESC\n        LIMIT $1\n      "
            /\ values[p] = <<Num(100)>>

C5_Witness ==
    \E p \in Procs :
        /\ pc[p] = "returned"
        /\ NoFilters(input[p])
        /\ conditions[p] = <<>>
        /\ values[p] = <<Num(100)>>

\* C6: the last parameter, the one LIMIT's placeholder names, is 100 when
\* limit is absent and the supplied limit otherwise (0 included); a
\* successful invocation returns the rows the database answered with,
\* untransformed, and so at most limit of them.
C6_LimitHonoured ==
    \A p \in Procs :
        Built(p) =>
            /\ paramCount[p] = Len(values[p])
            /\ values[p][Len(values[p])] =
                   (IF input[p].limit = undefined THEN Num(100) ELSE input[p].limit)
            /\ pc[p] = "returned" =>
                   /\ returned[p] = dbRows[p]
                   /\ Len(returned[p]) <= values[p][Len(values[p])].n

\* limit 2 against a table with more rows: two rows come back
C6_Witness ==
    \E p \in Procs :
        /\ pc[p] = "returned"
        /\ input[p].limit = Num(2)
        /\ Len(Table) > 2
        /\ returned[p] = <<[id |-> 1], [id |-> 2]>>

\* the declared type of a key of getRates.parameters
DeclaredType(f) ==
    CASE f \in StringFilters -> "string"
      [] f \in {"side", "limit"} -> "number"
      [] f = "orderBy" -> "object"

\* some declared key holds a value of another type than the declared one
WronglyTyped(raw) ==
    \E f \in StringFilters \cup {"side", "limit", "orderBy"} :
        raw[f] # undefined /\ typeof(raw[f]) # DeclaredType(f)

\* the argument object holds a key the schema does not declare
Unrecognized(raw) == raw.extra # undefined

\* the invocation ended in a validation error before touching the database
RejectedBeforeDatabase(p) ==
    /\ pc[p] = "invalid"
    /\ thrown[p] = ValidationError
    /\ ~Connected(p)
    /\ queryCalls[p] = 0
    /\ dbError[p] = NoError
    /\ \A i \in 1..Len(pendingQueue) : pendingQueue[i] # p

\* C7 as stated: an input with an unrecognized or a wrongly-typed field is
\* rejected with a validation error, no connection acquired, no query run.
C7_UnknownOrWrongRejected ==
    \A p \in Procs :
        (Unrecognized(input[p]) \/ WronglyTyped(input[p])) => RejectedBeforeDatabase(p)

\* C7 amended: an input with a wrongly-typed field is rejected with a
\* validation error, no connection acquired, no query run; an unrecognized
\* field alone is stripped and never reaches execute.
C7_WrongTypeRejected ==
    \A p \in Procs :
        /\ WronglyTyped(input[p]) => RejectedBeforeDatabase(p)
        /\ (pc[p] # "idle" /\ ~WronglyTyped(input[p])) =>
               pc[p] # "invalid" /\ thrown[p] # ValidationError

\* a string where side wants a number
C7_Witness ==
    \E p \in Procs :
        /\ input[p].side = Str("0")
        /\ RejectedBeforeDatabase(p)

\* C8: a supplied orderBy gives `ORDER BY <column> ASC` when ascending is
\* true and `ORDER BY <column> DESC` when it is false, the column verbatim
\* and no parameter added for it; an absent orderBy gives
\* `ORDER BY created_at DESC`.
C8_OrderByVerbatim ==
    \A p \in Procs :
        Built(p) =>
            /\ Len(values[p]) = Len(conditions[p]) + 1
            /\ input[p].orderBy = undefined =>
                   orderByClause[p] = "ORDER BY created_at DESC"
            /\ input[p].orderBy # undefined =>
                   orderByClause[p] =
                       "ORDER BY " \o input[p].orderBy.column.s
                           \o (IF input[p].orderBy.ascending.b THEN " ASC" ELSE " DESC")
            /\ input[p].orderBy = OrderByObj(Str("rate"), Bool(TRUE)) =>
                   orderByClause[p] = "ORDER BY rate ASC"

C8_Witness ==
    \E p \in Procs :
        /\ Built(p)
        /\ input[p].orderBy = OrderByObj(Str("rate"), Bool(TRUE))
        /\ orderByClause[p] = "ORDER BY rate ASC"

\* the left-hand side of a filter field's predicate
PredicateText(f) ==
    CASE f = "fromCurrency" -> "from_currency_id = "
      [] f = "toCurrency" -> "to_currency_id = "
      [] f = "side" -> "side = "
      [] f = "startDate" -> "created_at >= "
      [] f = "endDate" -> "created_at <= "

\* the value a filter field binds: dates as Date objects
BoundValue(raw, f) ==
    IF f \in {"startDate", "endDate"} THEN NewDate(raw[f]) ELSE raw[f]

\* the filter fields that add a predicate, in the fixed order
AddedFields(raw) ==
    SelectSeq(FilterFields,
              LAMBDA f : raw[f] # undefined /\ raw[f] # Str(""))

\* C9: the predicates follow the order fromCurrency, toCurrency, side,
\* startDate, endDate; the i-th one names placeholder $i, LIMIT names
\* $(k+1) after k predicates, and the parameter list holds the bound values
\* in that order followed by limit.
C9_PlaceholdersInOrder ==
    \A p \in Procs :
        Built(p) =>
            LET fs == AddedFields(input[p])
                k == Len(fs)
            IN /\ Len(conditions[p]) = k
               /\ \A i \in 1..k :
                      /\ conditions[p][i] = PredicateText(fs[i]) \o "$" \o ToString(i)
                      /\ values[p][i] = BoundValue(input[p], fs[i])
               /\ Len(values[p]) = k + 1
               /\ values[p][k + 1] = args[p].limit
               /\ query[p] =
                      "\n        SELECT * FROM exchange_rates \n        " \o whereClause[p]
                          \o " \n        " \o orderByClause[p]
                          \o "\n        LIMIT $" \o ToString(k + 1) \o "\n      "
               /\ (/\ input[p].fromCurrency = Str("USDT")
                   /\ input[p].toCurrency = Str("NGN")
                   /\ input[p].side = Num(0)
                   /\ input[p].limit = Num(10)
                   /\ input[p].startDate = undefined
                   /\ input[p].endDate = undefined) =>
                      /\ whereClause[p] =
                             "WHERE from_currency_id = $1 AND to_currency_id = $2 AND side = $3"
                      /\ values[p] = <<Str("USDT"), Str("NGN"), Num(0), Num(10)>>

\* the example filter, plus a start date bound as a Date
C9_Witness ==
    \E p \in Procs :
        /\ Built(p)
        /\ whereClause[p] =
               "WHERE from_currency_id = $1 AND to_currency_id = $2 AND side = $3 AND created_at >= $4"
        /\ values[p] = <<Str("USDT"), Str("NGN"), Num(0), DateObj(TRUE, 1704067200), Num(10)>>

\* C10: a connection is held by one invocation at a time and a querying
\* invocation holds exactly its own; an invocation waiting in
\* pool.connect() has run no query and at most PoolSize invocations query
\* at once; and, the pool serving its queue and the database answering
\* every query, the run settles with no invocation left waiting or
\* querying (each one started has returned or raised) and every
\* connection free.
C10_PoolServesAll ==
    /\ [](\A p \in Procs :
            /\ Cardinality(Holds(p)) <= 1
            /\ pc[p] = "querying" => Holds(p) = {client[p]}
            /\ pc[p] = "connecting" => queryCalls[p] = 0 /\ Holds(p) = {})
    /\ [](Cardinality({p \in Procs : pc[p] = "querying"}) <= PoolSize)
    /\ []((\A p \in Procs : ~InFlight(p)) => \A c \in Connections : checkedOut[c] = 0)
    /\ <>[](/\ \A p \in Procs : ~InFlight(p)
            /\ \A c \in Connections : checkedOut[c] = 0)

\* the pool exhausted with an invocation waiting behind it
C10_Witness ==
    /\ Cardinality({p \in Procs : pc[p] = "querying"}) = PoolSize
    /\ \E p \in Procs : pc[p] = "connecting" /\ queryCalls[p] = 0
    /\ \E p \in Procs : pc[p] = "querying" /\ Holds(p) = {client[p]}

====
